---- MODULE Spec2Model ----
(***************************************************************************)
(* A model of wranders/commit-action: the input resolvers of src/input.ts, *)
(* the remote file classifier (getRepoFiles), the commit submitter         *)
(* (createCommit), the transport client of src/request.ts and the entry    *)
(* point main of src/index.ts.                                             *)
(*                                                                         *)
(* JavaScript strings are sequences of character codes (charCodeAt), so   *)
(* that trim, split, join and the base58 encoding act on them as the code  *)
(* does.  An optional value is a sequence of length at most one: Undefined *)
(* is the empty one and Defined(v) holds v.                                *)
(***************************************************************************)
EXTENDS Integers, Sequences, FiniteSets, TLC

VARIABLES
    args,       \* the inputs of the resolver under study (getInput results, env, disk)
    ret,        \* what that resolver returned or threw; NotCalled before the call
    cfg,        \* the action inputs, environment and local disk of the workflow
    locals,     \* per run: what the resolvers of main returned or threw (lines 81-86)
    head,       \* the forge: OID at the head of the target branch
    tree,       \* the forge: set of paths present at the head of the target branch
    landed,     \* the forge: the commits created so far, in order
    pc,         \* per run: where main() is suspended
    net,        \* per run: the requests issued so far, each with its state and response
    repoFilesAction, \* per run: the FileActionSet returned by getRepoFiles
    message,    \* per run: the CommitMessageType handed to createCommit
    log,        \* per run: info() lines
    failed      \* per run: the reason given to setFailed, or NoReason

pureVars == <<args, ret>>
runVars == <<cfg, locals, head, tree, landed, pc, net, repoFilesAction, message, log, failed>>
vars == <<args, ret, cfg, locals, head, tree, landed, pc, net, repoFilesAction, message, log, failed>>

\* an optional JavaScript value: undefined, or a value
Undefined == <<>>
Defined(v) == <<v>>
IsDefined(o) == o # Undefined
ValueOf(o) == o[1]

\* the outcome of a call: nothing yet, a returned value, or a thrown Error
NotCalled == [kind |-> "none"]
Return(v) == [kind |-> "return", value |-> v]
Throw(text, arg) == [kind |-> "throw", text |-> text, arg |-> arg]
Returned(r) == r.kind = "return"
Threw(r) == r.kind = "throw"

(***************************************************************************)
(* String primitives of JavaScript, on sequences of characters.            *)
(***************************************************************************)
LF == 10
CR == 13
SP == 32
SLASH == 47
EmptyString == <<>>

\* the characters String.prototype.trim removes
IsWhite(c) == c \in {LF, CR, SP}

RECURSIVE TrimStart(_)
TrimStart(s) ==
    IF s # <<>> /\ IsWhite(Head(s)) THEN TrimStart(Tail(s)) ELSE s

RECURSIVE TrimEnd(_)
TrimEnd(s) ==
    IF s # <<>> /\ IsWhite(s[Len(s)]) THEN TrimEnd(SubSeq(s, 1, Len(s) - 1)) ELSE s

\* String.prototype.trim
Trim(s) == TrimEnd(TrimStart(s))

\* String.prototype.split(sep) for a one-character separator: always at least
\* one piece, the empty string splits into one empty piece.
RECURSIVE SplitFrom(_, _, _)
SplitFrom(s, sep, cur) ==
    IF s = <<>> THEN <<cur>>
    ELSE IF Head(s) = sep THEN <<cur>> \o SplitFrom(Tail(s), sep, <<>>)
    ELSE SplitFrom(Tail(s), sep, Append(cur, Head(s)))

Split(s, sep) == SplitFrom(s, sep, <<>>)

\* String.prototype.split(/\r?\n/g): a carriage return right before a line
\* feed belongs to the separator.
DropCR(piece) ==
    IF piece # <<>> /\ piece[Len(piece)] = CR
    THEN SubSeq(piece, 1, Len(piece) - 1) ELSE piece

SplitLines(s) ==
    LET raw == Split(s, LF)
    IN  [i \in 1..Len(raw) |-> IF i < Len(raw) THEN DropCR(raw[i]) ELSE raw[i]]

\* Array.prototype.join(sep)
RECURSIVE Join(_, _)
Join(lines, sep) ==
    IF lines = <<>> THEN <<>>
    ELSE IF Len(lines) = 1 THEN lines[1]
    ELSE lines[1] \o <<sep>> \o Join(Tail(lines), sep)

\* all sequences over S of length at most n
RECURSIVE SeqsUpTo(_, _)
SeqsUpTo(S, n) ==
    IF n = 0 THEN {<<>>}
    ELSE LET shorter == SeqsUpTo(S, n - 1)
         IN  shorter \cup {Append(s, c) : s \in shorter, c \in S}

(***************************************************************************)
(* src/input.ts: getInputCommitMessage                                     *)
(***************************************************************************)
\* `for (const line of lines) { if (line.trim() === '') { lines.shift();
\* continue; } break; }`: the iterator's index i advances while shift()
\* moves the array under it.
RECURSIVE ConsumeLeading(_, _)
ConsumeLeading(lines, i) ==
    IF i > Len(lines) THEN lines
    ELSE IF Trim(lines[i]) = EmptyString THEN ConsumeLeading(Tail(lines), i + 1)
    ELSE lines

\* the headline/body part shared by the inline and the file branch
HeadlineAndBody(lines) ==
    IF Len(lines) = 0 THEN Throw("commit message is empty", EmptyString)
    ELSE LET body == Trim(Join(Tail(lines), LF))
         IN  Return([default |-> FALSE,
                     headline |-> Trim(lines[1]),
                     body |-> IF body # EmptyString THEN Defined(body) ELSE Undefined])

\* 'committed files'
CommittedFiles ==
    <<99, 111, 109, 109, 105, 116, 116, 101, 100, 32, 102, 105, 108, 101, 115>>

\* inputMessage, inputMessageFile: what getInput returned; disk: the contents
\* of the file at inputMessageFile, Undefined when no such file exists
getInputCommitMessage(inputMessage, inputMessageFile, disk) ==
    IF inputMessage # EmptyString /\ inputMessageFile # EmptyString
    THEN Throw("both 'message' and 'message_file' cannot be specified", EmptyString)
    ELSE IF inputMessage = EmptyString /\ inputMessageFile = EmptyString
    THEN Return([default |-> TRUE, headline |-> CommittedFiles, body |-> Undefined])
    ELSE IF inputMessage # EmptyString
    THEN HeadlineAndBody(ConsumeLeading(Split(Trim(inputMessage), LF), 1))
    ELSE IF ~IsDefined(disk)
    THEN Throw("input 'message_file' does not exist", inputMessageFile)
    ELSE HeadlineAndBody(ConsumeLeading(SplitLines(ValueOf(disk)), 1))

(***************************************************************************)
(* src/input.ts: getInputRepository                                        *)
(***************************************************************************)
\* `const [owner, repo] = s.split('/')`: a missing second piece is undefined
Destructure2(parts) ==
    [owner |-> parts[1],
     repo |-> IF Len(parts) >= 2 THEN Defined(parts[2]) ELSE Undefined]

\* input: what getInput('repository') returned; env: process.env.GITHUB_REPOSITORY,
\* Undefined when the variable is not set
getInputRepository(input, env) ==
    IF input = EmptyString /\ env = Defined(EmptyString)
    THEN Throw("repository could not be determined", EmptyString)
    ELSE IF input # EmptyString
    THEN LET d == Destructure2(Split(input, SLASH))
         IN  IF d.owner = EmptyString \/ d.repo = Defined(EmptyString)
             THEN Throw("input 'repository' could not be parsed", input)
             ELSE Return([owner |-> d.owner, repository |-> d.repo])
    ELSE IF ~IsDefined(env)
    THEN Throw("TypeError: Cannot read properties of undefined", EmptyString)
    ELSE LET d == Destructure2(Split(ValueOf(env), SLASH))
         IN  IF d.owner = EmptyString \/ d.repo = Defined(EmptyString)
             THEN Throw("GITHUB_REPOSITORY environment variable could not be interpreted",
                        EmptyString)
             ELSE Return([owner |-> d.owner, repository |-> d.repo])

(***************************************************************************)
(* src/input.ts: getInputBranch, getInputToken                             *)
(***************************************************************************)
\* input: getInput('branch'); env: process.env.GITHUB_REF_NAME, Undefined when
\* the variable is not set.  The result is `out`, which is env as it stands.
getInputBranch(input, env) ==
    IF input = EmptyString /\ env = Defined(EmptyString)
    THEN Throw("branch could not be determined", EmptyString)
    ELSE IF input # EmptyString THEN Return(Defined(input))
    ELSE Return(env)

getInputToken(input, env) ==
    IF input = EmptyString /\ env = Defined(EmptyString)
    THEN Throw("no token available", EmptyString)
    ELSE IF input # EmptyString THEN Return(Defined(input))
    ELSE Return(env)

(***************************************************************************)
(* src/input.ts: getInputFiles, getInputDeleteFiles                        *)
(***************************************************************************)
STAR == 42

\* the listing order of the working directory
PathA == <<97>>
PathB == <<98>>
\* '__proto__', a legal file name
PathProto == <<95, 95, 112, 114, 111, 116, 111, 95, 95>>
Listing == <<PathA, PathB, PathProto>>

\* glob matching of one path segment: '*' stands for any run of characters
RECURSIVE Matches(_, _)
Matches(pattern, file) ==
    IF pattern = <<>> THEN file = <<>>
    ELSE IF Head(pattern) = STAR
    THEN Matches(Tail(pattern), file) \/ (file # <<>> /\ Matches(pattern, Tail(file)))
    ELSE file # <<>> /\ Head(file) = Head(pattern) /\ Matches(Tail(pattern), Tail(file))

\* globSync(line) against the files on local disk
globSync(line, disk) ==
    SelectSeq(Listing, LAMBDA f : f \in disk /\ Matches(line, f))

\* .filter((line) => line.trim() !== '')
NonBlank(lines) == SelectSeq(lines, LAMBDA l : Trim(l) # EmptyString)

\* the loop over the input lines; `what` names the input in the error text
RECURSIVE ExpandLines(_, _, _, _)
ExpandLines(lines, disk, out, what) ==
    IF lines = <<>> THEN Return(out)
    ELSE LET line == Head(lines)
             checkGlob == globSync(line, disk)
         IN  IF Len(checkGlob) = 0 THEN Throw(what, line)
             ELSE IF Len(checkGlob) = 1
             THEN ExpandLines(Tail(lines), disk, Append(out, line), what)
             ELSE ExpandLines(Tail(lines), disk, out \o checkGlob, what)

\* input: getInput('files', { required: true }), which throws on an empty value
getInputFiles(input, disk) ==
    IF input = EmptyString
    THEN Throw("Input required and not supplied: files", EmptyString)
    ELSE LET r == ExpandLines(NonBlank(Split(input, LF)), disk, <<>>, "no input 'file' found")
         IN  IF Returned(r) /\ Len(r.value) = 0
             THEN Throw("no 'files' could be parsed from input", input)
             ELSE r

getInputDeleteFiles(input, disk) ==
    IF input = EmptyString THEN Return(<<>>)
    ELSE LET r == ExpandLines(NonBlank(Split(input, LF)), disk, <<>>,
                              "no input 'delete_file' found")
         IN  IF Returned(r) /\ Len(r.value) = 0
             THEN Throw("no 'delete_files' could be parsed from input", input)
             ELSE r

(***************************************************************************)
(* src/index.ts: checkFilesExist, generateDefaultCommitMessageBody         *)
(***************************************************************************)
\* existsSync(file)
existsSync(file, disk) == file \in disk

\* checkFilesExist without its existsSync test
checkFilesExist_Unchecked(files, disk) == Return(<<>>)

RECURSIVE checkFilesExist(_, _)
checkFilesExist(files, disk) ==
    IF files = <<>> THEN Return(<<>>)
    ELSE IF ~existsSync(Head(files), disk)
    THEN Throw("create/modify file does not exist", Head(files))
    ELSE checkFilesExist(Tail(files), disk)

\* "created  '", "modified '", "deleted  '" and the closing quote
CreatedPrefix == <<99, 114, 101, 97, 116, 101, 100, 32, 32, 39>>
ModifiedPrefix == <<109, 111, 100, 105, 102, 105, 101, 100, 32, 39>>
DeletedPrefix == <<100, 101, 108, 101, 116, 101, 100, 32, 32, 39>>
Quote == <<39>>

BodyLines(prefix, bucket) ==
    IF IsDefined(bucket)
    THEN [i \in 1..Len(ValueOf(bucket)) |-> prefix \o ValueOf(bucket)[i] \o Quote]
    ELSE <<>>

generateDefaultCommitMessageBody_ModifiedFirst(files) ==
    Join(BodyLines(ModifiedPrefix, files.modifyFiles)
         \o BodyLines(CreatedPrefix, files.createFiles)
         \o BodyLines(DeletedPrefix, files.deleteFiles), LF)

generateDefaultCommitMessageBody(files) ==
    Join(BodyLines(CreatedPrefix, files.createFiles)
         \o BodyLines(ModifiedPrefix, files.modifyFiles)
         \o BodyLines(DeletedPrefix, files.deleteFiles), LF)

(***************************************************************************)
(* getRepoFiles: base58Encode, the query and the classification            *)
(***************************************************************************)
B58ALPHANUM ==
    <<49, 50, 51, 52, 53, 54, 55, 56, 57, 65, 66, 67, 68, 69, 70, 71, 72, 74, 75,
      76, 77, 78, 80, 81, 82, 83, 84, 85, 86, 87, 88, 89, 90, 97, 98, 99, 100, 101,
      102, 103, 104, 105, 106, 107, 109, 110, 111, 112, 113, 114, 115, 116, 117,
      118, 119, 120, 121, 122>>

\* new Uint8Array(input.split('').map((c) => c.charCodeAt(0))): each code is
\* stored modulo 256
ToBytes(input) == [i \in 1..Len(input) |-> input[i] % 256]

\* BigInt('0x' + hex)
RECURSIVE BigEndian(_, _)
BigEndian(bytes, acc) ==
    IF bytes = <<>> THEN acc ELSE BigEndian(Tail(bytes), acc * 256 + Head(bytes))

\* while (x > 0) { output.push(B58ALPHANUM[x % 58]); x = x / 58 }
RECURSIVE PushDigits(_, _)
PushDigits(x, output) ==
    IF x > 0 THEN PushDigits(x \div 58, Append(output, B58ALPHANUM[(x % 58) + 1]))
    ELSE output

\* for (let i = 0; input[i] === 0; i++) output.push(B58ALPHANUM[0])
RECURSIVE PushLeadingZeros(_, _, _)
PushLeadingZeros(bytes, i, output) ==
    IF i <= Len(bytes) /\ bytes[i] = 0
    THEN PushLeadingZeros(bytes, i + 1, Append(output, B58ALPHANUM[1]))
    ELSE output

Reverse(s) == [i \in 1..Len(s) |-> s[Len(s) + 1 - i]]

base58Encode(input) ==
    IF Len(input) = 0 THEN EmptyString
    ELSE LET bytes == ToBytes(input)
         IN  Reverse(PushLeadingZeros(bytes, 1, PushDigits(BigEndian(bytes, 0), <<>>)))

\* `_${base58Encode(file)}`
Underscore == <<95>>
Alias(file) == Underscore \o base58Encode(file)

\* Object.keys of the dictionary filled in the order of `files`: each key once,
\* in the order of its first insertion (no path of the model is an array index).
\* The dictionary is a plain object `{}`: the assignment dict['__proto__'] =
\* '_...' runs the setter inherited from Object.prototype, which ignores a
\* string, so that no key is created for this path.
RECURSIVE Keys(_, _)
Keys(files, seen) ==
    IF files = <<>> THEN seen
    ELSE IF Head(files) = PathProto THEN Keys(Tail(files), seen)
    ELSE IF \E i \in 1..Len(seen) : seen[i] = Head(files)
    THEN Keys(Tail(files), seen)
    ELSE Keys(Tail(files), Append(seen, Head(files)))

\* the `<alias>:file(path:"<path>"){type}` selections of the query
QueryEntries(inputCreateModifyFiles, inputDeleteFiles) ==
    LET all == Keys(inputCreateModifyFiles, <<>>) \o Keys(inputDeleteFiles, <<>>)
    IN  [i \in 1..Len(all) |-> [alias |-> Alias(all[i]), path |-> all[i]]]

\* an Undefined string in a template literal reads 'undefined'
UndefinedText == <<117, 110, 100, 101, 102, 105, 110, 101, 100>>
Render(o) == IF IsDefined(o) THEN ValueOf(o) ELSE UndefinedText

\* the request getRepoFiles hands to requestGraphQL
RepoFilesQuery(token, owner, repo, branch, inputCreateModifyFiles, inputDeleteFiles) ==
    [op |-> "query",
     token |-> Render(token),
     owner |-> owner,
     name |-> Render(repo),
     branch |-> Render(branch),
     entries |-> QueryEntries(inputCreateModifyFiles, inputDeleteFiles),
     input |-> Undefined]

\* `fileResult != null` for request.data.repository.ref.target[alias]; target
\* is the set of aliases whose result is an object
NotNull(target, file) == Alias(file) \in target

Bucket_KeepEmpty(files) == Defined(files)

Bucket(files) == IF Len(files) # 0 THEN Defined(files) ELSE Undefined

\* the FileActionSet getRepoFiles returns for a response whose target is `target`
Classify(inputCreateModifyFiles, inputDeleteFiles, target) ==
    LET cm == Keys(inputCreateModifyFiles, <<>>)
        del == IF Len(inputDeleteFiles) # 0 THEN Keys(inputDeleteFiles, <<>>) ELSE <<>>
    IN  [createFiles |-> Bucket(SelectSeq(cm, LAMBDA f : ~NotNull(target, f))),
         modifyFiles |-> Bucket(SelectSeq(cm, LAMBDA f : NotNull(target, f))),
         deleteFiles |-> Bucket(SelectSeq(del, LAMBDA f : NotNull(target, f)))]

\* the paths of the info() lines "input 'delete_file' not found in remote: ...; ignoring"
Ignored(inputDeleteFiles, target) ==
    LET del == IF Len(inputDeleteFiles) # 0 THEN Keys(inputDeleteFiles, <<>>) ELSE <<>>
    IN  SelectSeq(del, LAMBDA f : ~NotNull(target, f))

\* what getRepoFiles does with the parsed response of its query: a body with
\* no data, a null repository or a null ref makes the property chain throw
getRepoFilesResult_Lenient(inputCreateModifyFiles, inputDeleteFiles, body) ==
    Return(Classify(inputCreateModifyFiles, inputDeleteFiles, body.target))

getRepoFilesResult(inputCreateModifyFiles, inputDeleteFiles, body) ==
    IF body.shape # "target"
    THEN Throw("TypeError: Cannot read properties of undefined", EmptyString)
    ELSE Return(Classify(inputCreateModifyFiles, inputDeleteFiles, body.target))

(***************************************************************************)
(* createCommit                                                            *)
(***************************************************************************)
\* the entries pushed for one bucket; contents stands for the base64 text of
\* the bytes readFileSync(file) returns
Additions(bucket) ==
    IF IsDefined(bucket)
    THEN [i \in 1..Len(ValueOf(bucket)) |->
            [path |-> ValueOf(bucket)[i], contents |-> Defined(ValueOf(bucket)[i])]]
    ELSE <<>>

Deletions(bucket) ==
    [i \in 1..Len(ValueOf(bucket)) |-> [path |-> ValueOf(bucket)[i], contents |-> Undefined]]

FileChanges(fileActions) ==
    [additions |->
        IF IsDefined(fileActions.createFiles) \/ IsDefined(fileActions.modifyFiles)
        THEN Defined(Additions(fileActions.createFiles) \o Additions(fileActions.modifyFiles))
        ELSE Undefined,
     deletions |->
        IF IsDefined(fileActions.deleteFiles)
        THEN Defined(Deletions(fileActions.deleteFiles))
        ELSE Undefined]

\* expectedHeadOid: process.env.GITHUB_SHA
ExpectedHeadOid(sha) == sha

\* the request createCommit hands to requestGraphQL
CommitMutation(token, owner, repo, branch, msg, fileActions, sha) ==
    [op |-> "mutation",
     token |-> Render(token),
     owner |-> owner,
     name |-> Render(repo),
     branch |-> Render(branch),
     entries |-> <<>>,
     input |-> Defined([message |-> [headline |-> msg.headline, body |-> msg.body],
                        expectedHeadOid |-> ExpectedHeadOid(sha),
                        fileChanges |-> FileChanges(fileActions)])]

\* JSON.stringify of an array of strings
DoubleQuote == <<34>>
Comma == 44
JsonArray(strings) ==
    <<91>> \o Join([i \in 1..Len(strings) |-> DoubleQuote \o strings[i] \o DoubleQuote], Comma)
    \o <<93>>

\* what createCommit does with the parsed response of its mutation; errors is
\* absent (undefined), null, or a list of error messages
createCommitResult_IgnoreErrors(execRequest) == Return(execRequest)

createCommitResult(execRequest) ==
    IF execRequest.errors.kind = "undefined" THEN Return(execRequest)
    ELSE IF execRequest.errors.kind = "null"
    THEN Throw("TypeError: execRequest.errors is not iterable", EmptyString)
    ELSE Throw("error(s) processing the commit", JsonArray(execRequest.errors.list))

(***************************************************************************)
(* The forge and the transport (src/request.ts: requestGraphQL)            *)
(***************************************************************************)
\* the repository, branch and token the forge knows
RealOwner == <<111>>
RealName == <<114>>
RealRepository == <<111, 47, 114>>
RealBranch == <<109, 97, 105, 110>>
ValidToken == <<116>>

\* messages of the errors the forge returns for a mutation
MsgStale == <<115, 116, 97, 108, 101>>
MsgNotFound == <<110, 111, 114, 101, 102>>

NoErrors == [kind |-> "undefined", list |-> <<>>]
NullErrors == [kind |-> "null", list |-> <<>>]
ErrorList(l) == [kind |-> "list", list |-> l]

\* a parsed response body: of a query (shape, target) or a mutation (data, errors)
Body(shape, target, data, errors) ==
    [shape |-> shape, target |-> target, data |-> data, errors |-> errors]
NoBody == Body("none", {}, Undefined, NoErrors)

\* two selections under one alias with different arguments do not validate
AliasConflict(entries) ==
    \E i, j \in 1..Len(entries) :
        entries[i].alias = entries[j].alias /\ entries[i].path # entries[j].path

\* the forge's answer to the classification query, for the tree at the head
QueryAnswer(req, t) ==
    IF req.token # ValidToken \/ AliasConflict(req.entries) \/ Len(req.entries) = 0
    THEN Body("noData", {}, Undefined, NoErrors)
    ELSE IF req.owner # RealOwner \/ req.name # RealName
    THEN Body("nullRepository", {}, Undefined, NoErrors)
    ELSE IF req.branch # RealBranch
    THEN Body("nullRef", {}, Undefined, NoErrors)
    ELSE Body("target",
              {req.entries[i].alias : i \in {j \in 1..Len(req.entries) : req.entries[j].path \in t}},
              Undefined, NoErrors)

\* the forge accepts createCommitOnBranch only on the head the request expects
Accepts(req, h) ==
    /\ req.token = ValidToken
    /\ req.owner = RealOwner /\ req.name = RealName /\ req.branch = RealBranch
    /\ ValueOf(req.input).expectedHeadOid = h

MutationAnswer(req, h) ==
    IF req.token # ValidToken THEN Body("mutation", {}, Undefined, NoErrors)
    ELSE IF req.owner # RealOwner \/ req.name # RealName \/ req.branch # RealBranch
    THEN Body("mutation", {}, Undefined, ErrorList(<<MsgNotFound>>))
    ELSE IF ValueOf(req.input).expectedHeadOid # h
    THEN Body("mutation", {}, Undefined, ErrorList(<<MsgStale>>))
    ELSE Body("mutation", {}, Defined(h + 1), NoErrors)

PathsOf(changes) ==
    IF IsDefined(changes) THEN {ValueOf(changes)[i].path : i \in 1..Len(ValueOf(changes))}
    ELSE {}

\* the tree after the commit: additions written, deletions removed
TreeAfter(t, fileChanges) ==
    (t \cup PathsOf(fileChanges.additions)) \ PathsOf(fileChanges.deletions)

\* one request of a run: sent, then answered (a response is ready), then
\* settled (the promise of requestGraphQL resolved or rejected, or the
\* response callback threw).  processedAt is the head the forge saw when it
\* processed the request, -1 before that.
Exchange(req) ==
    [req |-> req, state |-> "sent", kind |-> "none", body |-> NoBody, processedAt |-> -1]

Outstanding(x) == x.state # "settled"

(***************************************************************************)
(* src/index.ts: main, as the steps between its suspension points          *)
(***************************************************************************)
Runs == {1, 2}

\* the commit the pipeline checked out (GITHUB_SHA)
Sha == 0

\* writes to the branch by others than the runs
MaxOtherCommits == 1

NoReason == [kind |-> "none"]
NoActions == [createFiles |-> Undefined, modifyFiles |-> Undefined, deleteFiles |-> Undefined]
NoMessage == [default |-> FALSE, headline |-> EmptyString, body |-> Undefined]

\* lines 81-86: the six resolvers in the order main calls them; the first
\* throw ends the sequence
ResolveConfig(c) ==
    LET branch == getInputBranch(c.branchInput, c.envRefName)
        deleteFiles == getInputDeleteFiles(c.deleteInput, c.disk)
        files == getInputFiles(c.filesInput, c.disk)
        msg == getInputCommitMessage(c.inputMessage, c.inputMessageFile, c.messageDisk)
        repository == getInputRepository(c.repositoryInput, c.envRepository)
        token == getInputToken(c.tokenInput, c.envToken)
    IN  IF Threw(branch) THEN branch
        ELSE IF Threw(deleteFiles) THEN deleteFiles
        ELSE IF Threw(files) THEN files
        ELSE IF Threw(msg) THEN msg
        ELSE IF Threw(repository) THEN repository
        ELSE IF Threw(token) THEN token
        ELSE Return([branch |-> branch.value, deleteFiles |-> deleteFiles.value,
                     files |-> files.value, message |-> msg.value,
                     repository |-> repository.value, token |-> token.value])

\* `catch (e) { if (e instanceof Error) setFailed(e.message); }`: everything
\* the code throws or rejects with is an Error
Catch(r, e) ==
    /\ failed' = [failed EXCEPT ![r] = e]
    /\ pc' = [pc EXCEPT ![r] = "done"]

\* an exception thrown inside an event callback is not the promise's: nothing
\* catches it and the process dies
Uncaught(r) ==
    /\ pc' = [pc EXCEPT ![r] = "crashed"]
    /\ UNCHANGED failed

Send(r, req) == net' = [net EXCEPT ![r] = Append(@, Exchange(req))]

Settle(r) == net' = [net EXCEPT ![r][Len(net[r])].state = "settled"]

\* the exchange main is suspended on
Awaited(r) == net[r][Len(net[r])]

\* main up to its first await: resolve, check the local files, send the query
MainStart(r) ==
    /\ pc[r] = "start"
    /\ r <= cfg.runs
    /\ LET res == ResolveConfig(cfg)
       IN  IF Threw(res)
           THEN Catch(r, res) /\ UNCHANGED <<net, message>>
           ELSE LET chk == checkFilesExist(res.value.files, cfg.disk)
                    v == res.value
                IN  IF Threw(chk)
                    THEN /\ Catch(r, chk)
                         /\ message' = [message EXCEPT ![r] = v.message]
                         /\ UNCHANGED net
                    ELSE /\ Send(r, RepoFilesQuery(v.token, v.repository.owner,
                                                   v.repository.repository, v.branch,
                                                   v.files, v.deleteFiles))
                         /\ message' = [message EXCEPT ![r] = v.message]
                         /\ pc' = [pc EXCEPT ![r] = "awaitQuery"]
                         /\ UNCHANGED failed
    /\ locals' = [locals EXCEPT ![r] = ResolveConfig(cfg)]
    /\ UNCHANGED <<args, ret, cfg, head, tree, landed, repoFilesAction, log>>

\* the response of the query arrives: requestGraphQL settles and main runs
\* up to its second await (classify, default body, build and send the mutation)
OnQueryResponse(r) ==
    /\ pc[r] = "awaitQuery"
    /\ Awaited(r).state = "answered"
    /\ LET x == Awaited(r)
           v == locals[r].value
       IN  CASE x.kind = "fault" ->
                  /\ Catch(r, Throw("transport fault", EmptyString))
                  /\ Settle(r)
                  /\ UNCHANGED <<repoFilesAction, message, log>>
             [] x.kind = "garbled" ->
                  /\ Uncaught(r)
                  /\ Settle(r)
                  /\ UNCHANGED <<repoFilesAction, message, log>>
             [] OTHER ->
                  LET got == getRepoFilesResult(v.files, v.deleteFiles, x.body)
                  IN  IF Threw(got)
                      THEN /\ Catch(r, got)
                           /\ Settle(r)
                           /\ UNCHANGED <<repoFilesAction, message, log>>
                      ELSE LET msg == IF message[r].default
                                      THEN [message[r] EXCEPT
                                              !.body = Defined(generateDefaultCommitMessageBody(got.value))]
                                      ELSE message[r]
                               ign == Ignored(v.deleteFiles, x.body.target)
                           IN  /\ repoFilesAction' = [repoFilesAction EXCEPT ![r] = got.value]
                               /\ log' = [log EXCEPT ![r] = @ \o
                                            [i \in 1..Len(ign) |-> [text |-> "ignoring", arg |-> ign[i]]]]
                               /\ message' = [message EXCEPT ![r] = msg]
                               /\ net' = [net EXCEPT ![r] =
                                            Append([@ EXCEPT ![Len(@)].state = "settled"],
                                                   Exchange(CommitMutation(v.token, v.repository.owner,
                                                       v.repository.repository, v.branch, msg,
                                                       got.value, cfg.sha)))]
                               /\ pc' = [pc EXCEPT ![r] = "awaitCommit"]
                               /\ UNCHANGED failed
    /\ UNCHANGED <<args, ret, cfg, locals, head, tree, landed>>

\* the response of the mutation arrives: requestGraphQL settles and main runs
\* to its end
OnCommitResponse(r) ==
    /\ pc[r] = "awaitCommit"
    /\ Awaited(r).state = "answered"
    /\ Settle(r)
    /\ LET x == Awaited(r)
       IN  CASE x.kind = "fault" ->
                  Catch(r, Throw("transport fault", EmptyString)) /\ UNCHANGED log
             [] x.kind = "garbled" ->
                  Uncaught(r) /\ UNCHANGED log
             [] OTHER ->
                  LET resp == createCommitResult(x.body)
                  IN  IF Threw(resp)
                      THEN Catch(r, resp) /\ UNCHANGED log
                      ELSE /\ pc' = [pc EXCEPT ![r] = "done"]
                           /\ log' = [log EXCEPT ![r] =
                                        IF IsDefined(resp.value.data)
                                        THEN Append(@, [text |-> "commit success",
                                                        arg |-> <<ValueOf(resp.value.data)>>])
                                        ELSE @]
                           /\ UNCHANGED failed
    /\ UNCHANGED <<args, ret, cfg, locals, head, tree, landed, repoFilesAction, message>>

(***************************************************************************)
(* The environment of a run: the forge, the transport, other writers       *)
(***************************************************************************)
Answer(r, i, kind, body, h) ==
    net' = [net EXCEPT ![r][i] =
              [@ EXCEPT !.state = "answered", !.kind = kind, !.body = body, !.processedAt = h]]

ForgeQuery(r) ==
    /\ \E i \in 1..Len(net[r]) :
          /\ net[r][i].state = "sent"
          /\ net[r][i].req.op = "query"
          /\ Answer(r, i, "json", QueryAnswer(net[r][i].req, tree), head)
    /\ UNCHANGED <<args, ret, cfg, locals, head, tree, landed, pc, repoFilesAction, message, log, failed>>

ForgeMutation(r) ==
    /\ \E i \in 1..Len(net[r]) :
          /\ net[r][i].state = "sent"
          /\ net[r][i].req.op = "mutation"
          /\ Answer(r, i, "json", MutationAnswer(net[r][i].req, head), head)
          /\ IF Accepts(net[r][i].req, head)
             THEN /\ head' = head + 1
                  /\ tree' = TreeAfter(tree, ValueOf(net[r][i].req.input).fileChanges)
                  /\ landed' = Append(landed, [by |-> r, oid |-> head + 1, parent |-> head])
             ELSE UNCHANGED <<head, tree, landed>>
    /\ UNCHANGED <<args, ret, cfg, locals, pc, repoFilesAction, message, log, failed>>

\* req.on('error') / response.on('error'): the exchange fails, before or
\* after the forge processed the request
TransportFault(r) ==
    /\ \E i \in 1..Len(net[r]) :
          /\ net[r][i].state = "sent" \/ (net[r][i].state = "answered" /\ net[r][i].kind = "json")
          /\ Answer(r, i, "fault", NoBody, net[r][i].processedAt)
    /\ UNCHANGED <<args, ret, cfg, locals, head, tree, landed, pc, repoFilesAction, message, log, failed>>

\* the response ends with a body that is not JSON (a gateway's error page)
GarbledBody(r) ==
    /\ \E i \in 1..Len(net[r]) :
          /\ net[r][i].state = "sent" \/ (net[r][i].state = "answered" /\ net[r][i].kind = "json")
          /\ Answer(r, i, "garbled", NoBody, net[r][i].processedAt)
    /\ UNCHANGED <<args, ret, cfg, locals, head, tree, landed, pc, repoFilesAction, message, log, failed>>

OtherCommits == Len(SelectSeq(landed, LAMBDA c : c.by = 0))

\* somebody else commits to the branch: the head moves and path p appears or
\* disappears
OtherWriter(p) ==
    /\ OtherCommits < MaxOtherCommits
    /\ head' = head + 1
    /\ tree' = IF p \in tree THEN tree \ {p} ELSE tree \cup {p}
    /\ landed' = Append(landed, [by |-> 0, oid |-> head + 1, parent |-> head])
    /\ UNCHANGED <<args, ret, cfg, locals, pc, net, repoFilesAction, message, log, failed>>

(***************************************************************************)
(* The workflows the runs are started from                                 *)
(***************************************************************************)
\* 'T': a one-line commit message
Title == <<84>>

\* a workflow whose every input resolves: files 'a', on disk, default message
BaseCfg ==
    [branchInput |-> EmptyString, envRefName |-> Defined(RealBranch),
     deleteInput |-> EmptyString, filesInput |-> PathA, disk |-> {PathA},
     inputMessage |-> EmptyString, inputMessageFile |-> EmptyString, messageDisk |-> Undefined,
     repositoryInput |-> EmptyString, envRepository |-> Defined(RealRepository),
     tokenInput |-> EmptyString, envToken |-> Defined(ValidToken),
     sha |-> Sha, runs |-> 1]

\* the values of the 'files' and 'delete_files' inputs: '', 'a', 'b', '*',
\* 'a\nb', 'a\n*', 'b\na'
FilesInputs ==
    {EmptyString, PathA, PathB, <<STAR>>, <<97, LF, 98>>, <<97, LF, STAR>>, <<98, LF, 97>>}
DeleteInputs == {EmptyString, PathA, PathB}

\* the workflows that differ in their files, their disk and their message
FileCfgs ==
    {[BaseCfg EXCEPT !.filesInput = f, !.deleteInput = d, !.disk = k, !.inputMessage = m] :
        f \in FilesInputs, d \in DeleteInputs, k \in {{PathA}, {PathA, PathB}},
        m \in {EmptyString, Title}}

\* the workflows that differ in one other input or environment variable
OtherCfgs ==
    {[BaseCfg EXCEPT !.envRefName = Defined(EmptyString)],
     [BaseCfg EXCEPT !.envRefName = Undefined],
     [BaseCfg EXCEPT !.branchInput = PathB],
     [BaseCfg EXCEPT !.repositoryInput = RealOwner],
     [BaseCfg EXCEPT !.repositoryInput = RealRepository],
     [BaseCfg EXCEPT !.envRepository = Defined(EmptyString)],
     [BaseCfg EXCEPT !.envToken = Defined(EmptyString)],
     [BaseCfg EXCEPT !.tokenInput = PathB],
     [BaseCfg EXCEPT !.inputMessage = Title, !.inputMessageFile = PathA],
     [BaseCfg EXCEPT !.inputMessageFile = PathB],
     [BaseCfg EXCEPT !.inputMessage = <<84, LF, 98>>],
     [BaseCfg EXCEPT !.filesInput = PathProto, !.disk = {PathProto}],
     [BaseCfg EXCEPT !.filesInput = PathProto, !.deleteInput = PathB,
                     !.disk = {PathB, PathProto}],
     [BaseCfg EXCEPT !.filesInput = PathA \o <<LF>> \o PathProto, !.disk = {PathA, PathProto}],
     [BaseCfg EXCEPT !.filesInput = <<STAR>>, !.envToken = Defined(EmptyString)],
     [BaseCfg EXCEPT !.inputMessageFile = PathA, !.messageDisk = Defined(<<LF, LF, 84>>)]}

\* the workflows triggered twice for the same commit: two runs of the action
\* with the same inputs and the same GITHUB_SHA
RaceCfgs ==
    {[c EXCEPT !.runs = 2] :
        c \in {BaseCfg,
               [BaseCfg EXCEPT !.inputMessage = Title],
               [BaseCfg EXCEPT !.filesInput = <<97, LF, 98>>, !.deleteInput = PathB,
                               !.disk = {PathA, PathB}]}}

Configs == FileCfgs \cup OtherCfgs \cup RaceCfgs

PureIdle == args = NotCalled /\ ret = NotCalled

Init ==
    /\ PureIdle
    /\ cfg \in Configs
    /\ locals = [r \in Runs |-> NotCalled]
    /\ head \in {Sha, Sha + 1}
    /\ tree \in SUBSET {PathA, PathB}
    /\ landed = <<>>
    /\ pc = [r \in Runs |-> "start"]
    /\ net = [r \in Runs |-> <<>>]
    /\ repoFilesAction = [r \in Runs |-> NoActions]
    /\ message = [r \in Runs |-> NoMessage]
    /\ log = [r \in Runs |-> <<>>]
    /\ failed = [r \in Runs |-> NoReason]

Next ==
    \/ \E r \in Runs : MainStart(r)
    \/ \E r \in Runs : OnQueryResponse(r)
    \/ \E r \in Runs : OnCommitResponse(r)
    \/ \E r \in Runs : ForgeQuery(r)
    \/ \E r \in Runs : ForgeMutation(r)
    \/ \E r \in Runs : TransportFault(r)
    \/ \E r \in Runs : GarbledBody(r)
    \/ \E p \in {PathA, PathB} : OtherWriter(p)

Spec == Init /\ [][Next]_vars

(***************************************************************************)
(* The resolvers and response checks on their own: the inputs are drawn    *)
(* from bounded sets and one step applies the function                     *)
(***************************************************************************)
RunIdle ==
    /\ cfg = BaseCfg
    /\ locals = [r \in Runs |-> NotCalled]
    /\ head = Sha
    /\ tree = {}
    /\ landed = <<>>
    /\ pc = [r \in Runs |-> "start"]
    /\ net = [r \in Runs |-> <<>>]
    /\ repoFilesAction = [r \in Runs |-> NoActions]
    /\ message = [r \in Runs |-> NoMessage]
    /\ log = [r \in Runs |-> <<>>]
    /\ failed = [r \in Runs |-> NoReason]

\* longest inline message, longest message file, in characters
MaxMessageLen == 3
MaxMessageFileLen == 4

InitCommitMessage ==
    /\ \/ \E m \in SeqsUpTo({84, LF, SP}, MaxMessageLen) :
             args = [inputMessage |-> m, inputMessageFile |-> EmptyString, disk |-> Undefined]
       \/ \E d \in {Undefined} \cup {Defined(c) : c \in SeqsUpTo({84, LF, CR}, MaxMessageFileLen)} :
             args = [inputMessage |-> EmptyString, inputMessageFile |-> PathA, disk |-> d]
       \/ args = [inputMessage |-> Title, inputMessageFile |-> PathA, disk |-> Defined(Title)]
    /\ ret = NotCalled
    /\ RunIdle

CallCommitMessage ==
    /\ ret = NotCalled
    /\ ret' = getInputCommitMessage(args.inputMessage, args.inputMessageFile, args.disk)
    /\ UNCHANGED <<args, cfg, locals, head, tree, landed, pc, net, repoFilesAction, message, log, failed>>

SpecCommitMessage == InitCommitMessage /\ [][CallCommitMessage]_vars

\* longest repository string, in characters
MaxRepositoryLen == 3

InitRepository ==
    /\ \E i \in SeqsUpTo({111, SLASH}, MaxRepositoryLen) :
       \E e \in {Undefined} \cup {Defined(c) : c \in SeqsUpTo({111, SLASH}, MaxRepositoryLen)} :
          args = [input |-> i, env |-> e]
    /\ ret = NotCalled
    /\ RunIdle

CallRepository ==
    /\ ret = NotCalled
    /\ ret' = getInputRepository(args.input, args.env)
    /\ UNCHANGED <<args, cfg, locals, head, tree, landed, pc, net, repoFilesAction, message, log, failed>>

SpecRepository == InitRepository /\ [][CallRepository]_vars

\* longest error list of a mutation response
MaxErrors == 3
MsgDenied == <<100, 101, 110, 105, 101, 100>>

InitCommitResponse ==
    /\ \E d \in {Undefined, Defined(Sha + 1)} :
       \E e \in {NoErrors, NullErrors}
                \cup {ErrorList(l) : l \in SeqsUpTo({MsgStale, MsgNotFound, MsgDenied}, MaxErrors)} :
          args = Body("mutation", {}, d, e)
    /\ ret = NotCalled
    /\ RunIdle

CallCommitResult ==
    /\ ret = NotCalled
    /\ ret' = createCommitResult(args)
    /\ UNCHANGED <<args, cfg, locals, head, tree, landed, pc, net, repoFilesAction, message, log, failed>>

SpecCommitResponse == InitCommitResponse /\ [][CallCommitResult]_vars

\* longest branch name, in characters
MaxBranchLen == 3

InitBranch ==
    /\ \E i \in SeqsUpTo({109, SLASH}, MaxBranchLen) :
       \E e \in {Undefined} \cup {Defined(c) : c \in SeqsUpTo({109, SLASH}, MaxBranchLen)} :
          args = [input |-> i, env |-> e]
    /\ ret = NotCalled
    /\ RunIdle

CallBranch ==
    /\ ret = NotCalled
    /\ ret' = getInputBranch(args.input, args.env)
    /\ UNCHANGED <<args, cfg, locals, head, tree, landed, pc, net, repoFilesAction, message, log, failed>>

SpecBranch == InitBranch /\ [][CallBranch]_vars

\* longest path, in characters; the characters of a path: NUL, 'a', and
\* U+0161, whose code is 256 + 97
MaxPathLen == 2
PathChars == {0, 97, 353}

InitAlias ==
    /\ \E a, b \in SeqsUpTo(PathChars, MaxPathLen) : args = [a |-> a, b |-> b]
    /\ ret = NotCalled
    /\ RunIdle

\* the aliases getRepoFiles gives two candidate paths
CallAlias ==
    /\ ret = NotCalled
    /\ ret' = Return([a |-> Alias(args.a), b |-> Alias(args.b)])
    /\ UNCHANGED <<args, cfg, locals, head, tree, landed, pc, net, repoFilesAction, message, log, failed>>

SpecAlias == InitAlias /\ [][CallAlias]_vars

(***************************************************************************)
(* Properties of a run (specification Spec)                                *)
(***************************************************************************)
Ended(r) == pc[r] \in {"done", "crashed"}

\* the values main resolved in run r, when every resolver returned
Resolved(r) == locals[r].value

Indices(r, op) == {i \in 1..Len(net[r]) : net[r][i].req.op = op}

\* the commits run r landed
LandedBy(r) == {k \in 1..Len(landed) : landed[k].by = r}

\* what the awaited call made of a settled exchange
Outcome(r, i) ==
    LET x == net[r][i]
    IN  IF x.kind # "json" THEN Throw(x.kind, EmptyString)
        ELSE IF x.req.op = "query"
        THEN getRepoFilesResult(Resolved(r).files, Resolved(r).deleteFiles, x.body)
        ELSE createCommitResult(x.body)

\* a step of run r has failed: a resolver, the local file check, or a request
StepFailed(r) ==
    \/ Threw(locals[r])
    \/ Returned(locals[r]) /\ Threw(checkFilesExist(Resolved(r).files, cfg.disk))
    \/ \E i \in 1..Len(net[r]) : net[r][i].state = "settled" /\ Threw(Outcome(r, i))

\* C1: whenever a step of a run fails, the run ends through setFailed with a
\* reason; no failure escapes the handler of main as an unhandled fault.
C1_EveryFailureReported ==
    \A r \in Runs :
        /\ pc[r] # "crashed"
        /\ (Ended(r) /\ StepFailed(r)) => Threw(failed[r])

Members(bucket) ==
    IF IsDefined(bucket) THEN {ValueOf(bucket)[i] : i \in 1..Len(ValueOf(bucket))} ELSE {}

\* C2: the FileActionSet getRepoFiles returns never holds a path in more than
\* one of createFiles, modifyFiles and deleteFiles.
C2_BucketsDisjoint ==
    \A r \in Runs :
        LET a == repoFilesAction[r]
        IN  /\ Members(a.createFiles) \cap Members(a.modifyFiles) = {}
            /\ Members(a.createFiles) \cap Members(a.deleteFiles) = {}
            /\ Members(a.modifyFiles) \cap Members(a.deleteFiles) = {}

\* getRepoFiles has returned in run r
Classified(r) ==
    /\ Len(net[r]) >= 1
    /\ net[r][1].state = "settled"
    /\ Returned(Outcome(r, 1))

Range(seq) == {seq[i] : i \in 1..Len(seq)}

\* C3: a create/modify candidate reported absent is in createFiles and only
\* there, one reported present is in modifyFiles and only there; a delete
\* candidate reported present is in deleteFiles, one reported absent is in no
\* bucket and is logged as ignored.
C3_ClassifiedByRemoteAnswer ==
    \A r \in Runs :
        Classified(r) =>
            LET target == net[r][1].body.target
                a == repoFilesAction[r]
                C == Members(a.createFiles)
                M == Members(a.modifyFiles)
                D == Members(a.deleteFiles)
            IN  /\ \A f \in Range(Resolved(r).files) :
                      IF Alias(f) \in target
                      THEN f \in M /\ f \notin C /\ f \notin D
                      ELSE f \in C /\ f \notin M /\ f \notin D
                /\ \A d \in Range(Resolved(r).deleteFiles) :
                      IF Alias(d) \in target
                      THEN d \in D
                      ELSE /\ d \notin C \cup M \cup D
                           /\ \E i \in 1..Len(log[r]) :
                                 log[r][i].text = "ignoring" /\ log[r][i].arg = d

\* the resolved create/modify paths that are not on local disk
Missing(files) == {i \in 1..Len(files) : files[i] \notin cfg.disk}
FirstMissing(files) == files[CHOOSE i \in Missing(files) : \A j \in Missing(files) : i <= j]

\* run r resolved its create/modify list (lines 81-83 returned), and a path of
\* the list is not on local disk
ResolvedWithMissing(r) ==
    /\ pc[r] # "start"
    /\ Returned(getInputBranch(cfg.branchInput, cfg.envRefName))
    /\ Returned(getInputDeleteFiles(cfg.deleteInput, cfg.disk))
    /\ Returned(getInputFiles(cfg.filesInput, cfg.disk))
    /\ Missing(getInputFiles(cfg.filesInput, cfg.disk).value) # {}

\* C7: when a path of the resolved create/modify list is not on local disk,
\* the run fails and issues neither the query nor the mutation; its reason is
\* "create/modify file '<path>' does not exist" for the first such path
\* whenever configuration resolution completed, so that the check was made.
C7_LocalExistenceGate ==
    \A r \in Runs :
        ResolvedWithMissing(r) =>
            /\ net[r] = <<>>
            /\ pc[r] = "done"
            /\ failed[r].kind = "throw"
            /\ Returned(locals[r]) =>
                  /\ failed[r].text = "create/modify file does not exist"
                  /\ failed[r].arg = FirstMissing(Resolved(r).files)

\* a run failed on the second of two resolved paths, the first being on disk
C7_Witness ==
    \E r \in Runs :
        /\ pc[r] = "done"
        /\ Returned(locals[r])
        /\ Len(Resolved(r).files) = 2
        /\ Missing(Resolved(r).files) = {2}
        /\ failed[r].kind = "throw"
        /\ failed[r].arg = Resolved(r).files[2]

\* the query of run r settled with a parsed response that holds a target
QueryAnswered(r) ==
    /\ Len(net[r]) >= 1
    /\ net[r][1].req.op = "query"
    /\ net[r][1].state = "settled"
    /\ net[r][1].kind = "json"
    /\ net[r][1].body.shape = "target"

\* run r failed in configuration resolution, in the local file check or in
\* classification
FailedBeforeCommit(r) ==
    \/ Threw(locals[r])
    \/ Returned(locals[r]) /\ Missing(Resolved(r).files) # {}
    \/ Len(net[r]) >= 1 /\ net[r][1].state = "settled" /\ ~QueryAnswered(r)

ProcessedOff(x, h) == x.req.op = "mutation" /\ x.processedAt >= 0 /\ x.processedAt # h

\* C9: the mutation carries GITHUB_SHA as expected head OID; when the head of
\* the branch is no longer that SHA as the forge processes the mutation, the
\* commit is rejected, the run lands no commit and does not end in success:
\* it ends through setFailed with the forge's messages when the rejection
\* reaches it, and in no case logs a commit; of the runs started from one SHA
\* at most one lands a commit.
C9_OptimisticConcurrency ==
    /\ \A r \in Runs : \A i \in Indices(r, "mutation") :
          LET x == net[r][i]
          IN  /\ ValueOf(x.req.input).expectedHeadOid = cfg.sha
              /\ ProcessedOff(x, cfg.sha) =>
                    /\ LandedBy(r) = {}
                    /\ x.kind = "json" =>
                          /\ x.body.errors.kind = "list"
                          /\ x.body.errors.list # <<>>
                          /\ ~IsDefined(x.body.data)
                    /\ Ended(r) =>
                          /\ Threw(failed[r]) \/ pc[r] = "crashed"
                          /\ \A k \in 1..Len(log[r]) : log[r][k].text # "commit success"
                    /\ (Ended(r) /\ x.kind = "json") =>
                          /\ failed[r].kind = "throw"
                          /\ failed[r].text = "error(s) processing the commit"
                          /\ failed[r].arg = JsonArray(x.body.errors.list)
    /\ \A k \in 1..Len(landed) : landed[k].by \in Runs => landed[k].parent = cfg.sha
    /\ Cardinality({k \in 1..Len(landed) : landed[k].by \in Runs}) <= 1

\* two runs raced from one SHA: one landed its commit, the other was rejected
\* as stale and ended through setFailed
C9_Witness ==
    \E r, q \in Runs :
        /\ LandedBy(r) # {}
        /\ pc[q] = "done"
        /\ Len(net[q]) = 2
        /\ ProcessedOff(net[q][2], cfg.sha)
        /\ failed[q].kind = "throw"
        /\ failed[q].text = "error(s) processing the commit"

\* the line of the default body for one path: the label, padded to nine
\* characters, and the path between single quotes
BodyLine(label, path) == label \o <<39>> \o path \o <<39>>

\* the paths of a bucket, none when the bucket is absent
Entries(bucket) == IF bucket = Undefined THEN <<>> ELSE bucket[1]

\* the default body for a FileActionSet: created, then modified, then deleted
DefaultBodyText(fa) ==
    LET c == Entries(fa.createFiles)
        m == Entries(fa.modifyFiles)
        d == Entries(fa.deleteFiles)
        line(i) == IF i <= Len(c)
                   THEN BodyLine(<<99, 114, 101, 97, 116, 101, 100, 32, 32>>, c[i])
                   ELSE IF i <= Len(c) + Len(m)
                   THEN BodyLine(<<109, 111, 100, 105, 102, 105, 101, 100, 32>>, m[i - Len(c)])
                   ELSE BodyLine(<<100, 101, 108, 101, 116, 101, 100, 32, 32>>,
                                 d[i - Len(c) - Len(m)])
    IN  Join([i \in 1..(Len(c) + Len(m) + Len(d)) |-> line(i)], LF)

\* the message of the mutation run r sent as its i-th request
SentMessage(r, i) == net[r][i].req.input[1].message

\* C12: between configuration resolution and commit submission the message
\* changes only when it is marked default, and then only its body, which
\* becomes one line per path: created, then modified, then deleted entries,
\* joined by newline, absent buckets giving no lines; a user-supplied headline
\* and body reach the mutation unchanged.
C12_OnlyDefaultBodyGenerated ==
    \A r \in Runs :
        (pc[r] # "start" /\ Returned(locals[r])) =>
            LET orig == Resolved(r).message
            IN  /\ message[r].headline = orig.headline
                /\ message[r].default = orig.default
                /\ message[r].body # orig.body =>
                      /\ orig.default
                      /\ Indices(r, "mutation") # {}
                /\ \A i \in Indices(r, "mutation") :
                      /\ SentMessage(r, i).headline = orig.headline
                      /\ SentMessage(r, i).body = message[r].body
                      /\ SentMessage(r, i).body =
                            IF orig.default
                            THEN <<DefaultBodyText(repoFilesAction[r])>>
                            ELSE orig.body

\* a run with the default message sent a mutation for a created and a
\* modified path and no deletion
C12_Witness ==
    \E r \in Runs :
        /\ Returned(locals[r])
        /\ Resolved(r).message.default
        /\ Indices(r, "mutation") # {}
        /\ repoFilesAction[r].createFiles # Undefined
        /\ repoFilesAction[r].modifyFiles # Undefined
        /\ repoFilesAction[r].deleteFiles = Undefined
        /\ message[r].body # Undefined

\* the paths of a list of file changes, in order
ChangePaths(changes) == [i \in 1..Len(changes) |-> changes[i].path]

\* the file changes of the mutation run r sent as its i-th request
SentChanges(r, i) == net[r][i].req.input[1].fileChanges

\* C13: getRepoFiles never returns a bucket that is an empty sequence; the
\* mutation has a deletions array exactly when deleteFiles is present and an
\* additions array exactly when createFiles or modifyFiles is present, the
\* additions being the createFiles entries followed by the modifyFiles entries.
C13_NoEmptyBuckets ==
    \A r \in Runs :
        LET fa == repoFilesAction[r]
        IN  /\ fa.createFiles # <<(<<>>)>>
            /\ fa.modifyFiles # <<(<<>>)>>
            /\ fa.deleteFiles # <<(<<>>)>>
            /\ \A i \in Indices(r, "mutation") :
                  LET fc == SentChanges(r, i)
                  IN  /\ (fc.deletions # Undefined) <=> (fa.deleteFiles # Undefined)
                      /\ fc.deletions # Undefined =>
                            ChangePaths(fc.deletions[1]) = fa.deleteFiles[1]
                      /\ (fc.additions # Undefined) <=>
                            (fa.createFiles # Undefined \/ fa.modifyFiles # Undefined)
                      /\ fc.additions # Undefined =>
                            ChangePaths(fc.additions[1]) =
                               Entries(fa.createFiles) \o Entries(fa.modifyFiles)

\* a run whose only deletion candidate is not on the branch sent a mutation
\* without a deletions array, its additions being a created and a modified path
C13_Witness ==
    \E r \in Runs :
        /\ Returned(locals[r])
        /\ Resolved(r).deleteFiles # <<>>
        /\ repoFilesAction[r].deleteFiles = Undefined
        /\ repoFilesAction[r].createFiles # Undefined
        /\ repoFilesAction[r].modifyFiles # Undefined
        /\ \E i \in Indices(r, "mutation") :
              /\ SentChanges(r, i).deletions = Undefined
              /\ Len(SentChanges(r, i).additions[1]) = 2

\* C15: every mutation a run sends carries at least one addition: the union
\* of createFiles and modifyFiles is the set of resolved 'files' paths, the
\* additions array is present and non-empty, and no deletion-only commit is
\* sent.
C15_CommitHasAdditions ==
    \A r \in Runs :
        \A i \in Indices(r, "mutation") :
            LET fa == repoFilesAction[r]
                fc == SentChanges(r, i)
            IN  /\ Range(Entries(fa.createFiles)) \cup Range(Entries(fa.modifyFiles))
                      = Range(Resolved(r).files)
                /\ fc.additions # Undefined
                /\ Len(fc.additions[1]) > 0

(***************************************************************************)
(* Properties of the resolvers and of the response check                   *)
(***************************************************************************)
Called == ret # NotCalled

\* the string getInputRepository parses: the input, else the environment's
Chosen == IF args.input # EmptyString THEN Defined(args.input) ELSE args.env

WellFormed(s) ==
    LET parts == Split(s, SLASH)
    IN  Len(parts) = 2 /\ parts[1] # EmptyString /\ parts[2] # EmptyString

\* C4: repository resolution fails for every chosen string that does not
\* split on '/' into two non-empty segments.
C4_MalformedRepositoryFails ==
    Called => ((~IsDefined(Chosen) \/ ~WellFormed(ValueOf(Chosen))) => Threw(ret))

\* the message is user-supplied: inline, or in a message file that exists
UserSupplied ==
    \/ args.inputMessage # EmptyString /\ args.inputMessageFile = EmptyString
    \/ args.inputMessage = EmptyString /\ args.inputMessageFile # EmptyString
                                       /\ IsDefined(args.disk)

\* its lines
UserLines ==
    IF args.inputMessage # EmptyString THEN Split(args.inputMessage, LF)
    ELSE SplitLines(ValueOf(args.disk))

NonBlankLines == {i \in 1..Len(UserLines) : Trim(UserLines[i]) # EmptyString}
FirstNonBlank == CHOOSE i \in NonBlankLines : \A j \in NonBlankLines : i <= j

\* C5: the headline of a user-supplied message is its first non-blank line,
\* trimmed, hence never empty; the body is the remaining lines joined by
\* newline and trimmed, omitted when blank.
C5_HeadlineIsFirstNonBlankLine ==
    (Called /\ UserSupplied /\ NonBlankLines # {}) =>
        LET rest == Trim(Join(SubSeq(UserLines, FirstNonBlank + 1, Len(UserLines)), LF))
        IN  /\ Returned(ret)
            /\ ret.value.headline = Trim(UserLines[FirstNonBlank])
            /\ ret.value.headline # EmptyString
            /\ ret.value.body = IF rest # EmptyString THEN Defined(rest) ELSE Undefined

\* C6: a user-supplied message of blank lines only makes getInputCommitMessage
\* fail with 'commit message is empty'.
C6_BlankMessageFails ==
    (Called /\ UserSupplied /\ NonBlankLines = {}) =>
        /\ Threw(ret)
        /\ ret.text = "commit message is empty"

\* C10: createCommit fails exactly when the response carries a non-empty error
\* list, with every error message, in order, as a JSON array; it returns every
\* other response unchanged.
C10_FailsOnNonEmptyErrorList ==
    Called =>
        IF args.errors.kind = "list" /\ args.errors.list # <<>>
        THEN /\ Threw(ret)
             /\ ret.text = "error(s) processing the commit"
             /\ ret.arg = JsonArray(args.errors.list)
        ELSE ret = Return(args)

\* the environment holds no branch name: the variable is unset or empty
NoEnvBranch == args.env = Undefined \/ args.env = Defined(EmptyString)

\* C11: branch resolution returns the input when it is non-empty, the
\* environment's branch when the input is empty and the environment's value is
\* non-empty, and fails when both are empty or absent; it never returns an
\* empty or undefined branch name.
C11_BranchResolution ==
    Called =>
        /\ args.input # EmptyString => ret = Return(Defined(args.input))
        /\ (args.input = EmptyString /\ ~NoEnvBranch) => ret = Return(args.env)
        /\ (args.input = EmptyString /\ NoEnvBranch) => Threw(ret)
        /\ Returned(ret) => (IsDefined(ret.value) /\ ValueOf(ret.value) # EmptyString)

\* the number of leading elements of s equal to c
RECURSIVE LeadingCount(_, _)
LeadingCount(s, c) ==
    IF s # <<>> /\ Head(s) = c THEN 1 + LeadingCount(Tail(s), c) ELSE 0

\* the path is a byte string: every character code is below 256
ByteString(p) == \A i \in 1..Len(p) : p[i] < 256

\* C14: the alias, '_' followed by base58Encode of the path, is injective on
\* candidate paths, characters above 255 and leading zero bytes included; the
\* empty input encodes to the empty string and each leading zero byte yields
\* one leading '1'.
C14_AliasInjective ==
    Called =>
        /\ args.a # args.b => ret.value.a # ret.value.b
        /\ args.a = <<>> => ret.value.a = <<95>>
        /\ ByteString(args.a) =>
              LeadingCount(Tail(ret.value.a), 49) = LeadingCount(args.a, 0)

\* on byte strings the alias is injective: two distinct paths whose character
\* codes are all below 256 get distinct aliases
AliasInjectiveOnBytes ==
    Called =>
        ((ByteString(args.a) /\ ByteString(args.b) /\ args.a # args.b)
            => ret.value.a # ret.value.b)

====
